---- MODULE Spec2Model ----
(***************************************************************************)
(* A model of the desktop state snapshot engine of Windows-MCP:            *)
(* src/src/windows_mcp/desktop/service.py (class Desktop) and the tool     *)
(* handlers that call it.                                                  *)
(*                                                                         *)
(*  SpecWindows  : the window enumerator and classifier (get_windows)      *)
(*  SpecSnapshot : one get_state call over every small desktop             *)
(*  SpecShared   : several callers sharing one Desktop instance            *)
(*  SpecActions  : snapshots and actions served one at a time              *)
(*  SpecXPath    : structural addresses of a control tree                  *)
(*  SpecAnnot    : the thread pool drawing the annotated screenshot        *)
(*  SpecCalls    : single calls of the helpers and the tool handlers       *)
(*  SpecScenario : get_state on the desktop {app, overlay, taskbar}        *)
(*  SpecInput    : input-injection actions of requests served at once      *)
(***************************************************************************)
EXTENDS Integers, Sequences, FiniteSets, TLC

VARIABLES
    \* --- the windowing system, as one call observes it
    os,             \* handle -> the surface behind it
    order,          \* the order in which the set of candidate handles is iterated
    gw,             \* what get_windows returned (None before the call)
    \* --- the Desktop instance and its callers
    inputs,         \* what the platform can show a get_state call
    callers,        \* the threads calling into the Desktop instance
    pc,             \* caller -> its position in get_state
    asm,            \* caller -> the locals of its get_state call
    desktop_state,  \* Desktop.desktop_state
    returned,       \* caller -> what its last get_state call returned
    lastDone,       \* what the get_state call that completed last had assembled
    lastAction,     \* the outcome of the last label resolution or resize_app
    \* --- a live control tree and one address round trip
    tree,           \* the control tree: node -> [parent, ctype, rid]
    xp,             \* the round trip of one element through its xpath
    \* --- get_annotated_screenshot
    nodes,          \* tree_state.interactive_nodes handed to the annotator
    tasks,          \* the draw tasks, in submission order
    taskpc,         \* task index -> "queued" | "box" | "done"
    canvas,         \* what has been drawn: records [label, box, what]
    vscreen,        \* uia.GetVirtualScreenRect(): [left, top] of the virtual screen
    annotDone,      \* get_annotated_screenshot has returned
    \* --- one call of a helper or a tool handler
    call,           \* the call: its function, its arguments, its outcome
    \* --- the input-injection actions of concurrent tool requests
    dispatcher,     \* how the dispatcher runs the handlers of the requests
    inj             \* request -> its action and the physical steps it has made

clsVars    == <<os, order, gw>>
deskVars   == <<inputs, callers, pc, asm, desktop_state, returned, lastDone,
                lastAction>>
xpVars     == <<tree, xp>>
annotVars  == <<nodes, tasks, taskpc, canvas, vscreen, annotDone>>
fnVars     == <<call>>
inputVars  == <<dispatcher, inj>>
vars       == <<clsVars, deskVars, xpVars, annotVars, fnVars, inputVars>>

\* Python's None, where a record is expected
None == [none |-> TRUE]

NoFail == "none"

(***************************************************************************)
(* Bounds of the model.                                                    *)
(***************************************************************************)
NumHandles == 2      \* top-level surfaces the windowing system can hold
NumCallers == 2      \* threads calling into one Desktop instance
MaxLabel   == 2      \* the largest label an action is asked to resolve
MaxTreeNodes == 5    \* controls of a live control tree, the root included
WideSiblings == 11   \* same-type siblings of the wide control tree
MaxNodes   == 3      \* interactive nodes handed to the annotator
MaxLocs    == 2      \* locations of one multi_select or multi_edit request
MaxChoices == 6      \* names a requested name is matched against

Handles == 1..NumHandles

(***************************************************************************)
(* The windowing system. A surface is what the platform bindings (uia,     *)
(* win32gui, vdm) report for one handle. `fail` is the first query on the  *)
(* control that throws, if any.                                            *)
(***************************************************************************)
Stages == {"resolve", "overlay", "pattern", "status", "bounds"}

\* Names are sequences of words; " " is whitespace, "Overlay" the marker.
Names == { <<"Notepad">>, <<"NVIDIA", " ", "Overlay">>, <<" ", "Overlay", " ">> }

Rects == { [left |-> 0, top |-> 0, right |-> 800, bottom |-> 600],
           [left |-> 0, top |-> 0, right |-> 0,   bottom |-> 0] }

NoPattern == [present |-> FALSE, CanMinimize |-> FALSE, CanMaximize |-> FALSE]

Patterns == {NoPattern} \cup
            {[present |-> TRUE, CanMinimize |-> a, CanMaximize |-> b] : a, b \in BOOLEAN}

Classes == {"App", "Progman", "Shell_TrayWnd", "Shell_SecondaryTrayWnd"}

\* A real, resizable, visible application window.
Good == [ valid |-> TRUE, onDesktop |-> TRUE, cls |-> "App", fail |-> NoFail,
          nchildren |-> 2, name |-> <<"Notepad">>, kind |-> "WindowControl",
          pattern |-> [present |-> TRUE, CanMinimize |-> TRUE, CanMaximize |-> TRUE],
          iconic |-> FALSE, zoomed |-> FALSE, visible |-> TRUE,
          pid |-> 100, browser |-> FALSE,
          rect |-> [left |-> 0, top |-> 0, right |-> 800, bottom |-> 600] ]

\* Every surface that differs from Good in one respect: what the enumerator
\* sees, the failing query, children and name, control kind, window pattern,
\* or the status flags and the bounding rectangle.
Surfaces ==
    {[Good EXCEPT !.valid = FALSE], [Good EXCEPT !.onDesktop = FALSE]}
    \cup {[Good EXCEPT !.cls = c] : c \in Classes}
    \cup {[Good EXCEPT !.cls = "Shell_TrayWnd", !.visible = FALSE]}
    \cup {[Good EXCEPT !.fail = f] : f \in Stages}
    \cup {[Good EXCEPT !.nchildren = n, !.name = m] : n \in {0, 2}, m \in Names}
    \cup {[Good EXCEPT !.kind = k] : k \in {"PaneControl", "ButtonControl"}}
    \cup {[Good EXCEPT !.pattern = p] : p \in Patterns}
    \cup {[Good EXCEPT !.browser = TRUE]}
    \cup {[Good EXCEPT !.iconic = i, !.zoomed = z, !.visible = v, !.rect = r] :
              i, z, v \in BOOLEAN, r \in Rects}

DeskIdle ==
    /\ inputs = {} /\ callers = {} /\ pc = <<>> /\ asm = <<>>
    /\ desktop_state = None /\ returned = <<>> /\ lastDone = None
    /\ lastAction = None

XPathIdle == tree = <<>> /\ xp = None

AnnotIdle ==
    /\ nodes = <<>> /\ tasks = <<>> /\ taskpc = <<>> /\ canvas = {}
    /\ vscreen = None
    /\ annotDone = FALSE

ClsIdle == os = <<>> /\ order = <<>> /\ gw = None

FnIdle == call = None

InputIdle == dispatcher = "none" /\ inj = <<>>

(***************************************************************************)
(* Desktop.get_window_status                                               *)
(***************************************************************************)
get_window_status_zoomed_first(c) ==
    IF c.zoomed THEN "Maximized"
    ELSE IF c.iconic THEN "Minimized"
    ELSE IF c.visible THEN "Normal"
    ELSE "Hidden"

get_window_status(c) ==
    IF c.iconic THEN "Minimized"
    ELSE IF c.zoomed THEN "Maximized"
    ELSE IF c.visible THEN "Normal"
    ELSE "Hidden"

(***************************************************************************)
(* Desktop.is_overlay_window: no children, or the stripped name contains   *)
(* the marker.                                                             *)
(***************************************************************************)
RECURSIVE LStrip(_)
LStrip(s) == IF s # <<>> /\ Head(s) = " " THEN LStrip(Tail(s)) ELSE s

RECURSIVE RStrip(_)
RStrip(s) == IF s # <<>> /\ s[Len(s)] = " " THEN RStrip(SubSeq(s, 1, Len(s) - 1)) ELSE s

Strip(s) == RStrip(LStrip(s))

Contains(s, w) == \E i \in 1..Len(s) : s[i] = w

is_overlay_window_and(c) ==
    LET no_children == c.nchildren = 0
        is_name     == Contains(Strip(c.name), "Overlay")
    IN  no_children /\ is_name

is_overlay_window(c) ==
    LET no_children == c.nchildren = 0
        is_name     == Contains(Strip(c.name), "Overlay")
    IN  no_children \/ is_name

(***************************************************************************)
(* Desktop.get_controls_handles: the visible top-level windows of the      *)
(* current desktop, plus the desktop background and the taskbars.          *)
(***************************************************************************)
FindWindow(osv, cls) ==
    LET S == {h \in DOMAIN osv : osv[h].valid /\ osv[h].cls = cls}
    IN  IF S = {} THEN 0 ELSE CHOOSE h \in S : \A k \in S : h <= k

get_controls_handles_visible_only(osv) ==
    {h \in DOMAIN osv : osv[h].valid /\ osv[h].visible /\ osv[h].onDesktop}

get_controls_handles(osv) ==
    {h \in DOMAIN osv : osv[h].valid /\ osv[h].visible /\ osv[h].onDesktop}
    \cup ({FindWindow(osv, "Progman"), FindWindow(osv, "Shell_TrayWnd"),
           FindWindow(osv, "Shell_SecondaryTrayWnd")} \ {0})

\* The orders in which a set of handles can be iterated.
IterOrders(S) ==
    {q \in [1..Cardinality(S) -> S] : \A i, j \in DOMAIN q : i # j => q[i] # q[j]}

(***************************************************************************)
(* Desktop.get_windows                                                     *)
(***************************************************************************)
width(r)   == r.right - r.left
height(r)  == r.bottom - r.top
isempty(r) == width(r) = 0 \/ height(r) = 0

BoundingBox(r) ==
    [left |-> r.left, top |-> r.top, right |-> r.right, bottom |-> r.bottom,
     width |-> width(r), height |-> height(r)]

NativeWindowHandleAsPid(hwnd, c) == c.pid

\* child.NativeWindowHandle of the control resolved from hwnd
NativeWindowHandle(hwnd, c) == hwnd

has_capabilities_or(c) == c.pattern.CanMinimize \/ c.pattern.CanMaximize

has_capabilities(c) == c.pattern.CanMinimize /\ c.pattern.CanMaximize

rejects_bounds_always(c) == isempty(c.rect)

\* line 677: an empty rectangle is accepted only of a minimized window
rejects_bounds(c) == isempty(c.rect) /\ get_window_status(c) # "Minimized"

MakeWindow(hwnd, c, depth) ==
    [name |-> c.name, depth |-> depth, status |-> get_window_status(c),
     bounding_box |-> BoundingBox(c.rect),
     handle |-> NativeWindowHandle(hwnd, c), process_id |-> c.pid,
     is_browser |-> c.browser]

\* The loop body for the candidate at position i; acc is
\* [windows, window_handles, raised]. A throw outside the inner try
\* leaves the loop.
RECURSIVE WindowsLoop(_, _, _, _)
WindowsLoop(osv, ord, i, acc) ==
    IF i > Len(ord) THEN acc
    ELSE
      LET hwnd == ord[i]
          c    == osv[hwnd]
          skip == WindowsLoop(osv, ord, i + 1, acc)
          throw == [acc EXCEPT !.raised = TRUE]
      IN  IF c.fail = "resolve" THEN skip
          ELSE IF c.fail = "overlay" THEN throw
          ELSE IF is_overlay_window(c) THEN skip
          ELSE IF c.kind \notin {"WindowControl", "PaneControl"} THEN skip
          ELSE IF c.fail = "pattern" THEN throw
          ELSE IF ~c.pattern.present THEN skip
          ELSE IF ~has_capabilities(c) THEN skip
          ELSE IF c.fail = "status" THEN throw
          ELSE IF c.fail = "bounds" THEN throw
          ELSE IF rejects_bounds(c) THEN skip
          ELSE WindowsLoop(osv, ord, i + 1,
                  [acc EXCEPT !.windows = Append(@, MakeWindow(hwnd, c, i - 1)),
                              !.window_handles = @ \cup {NativeWindowHandle(hwnd, c)}])

\* get_windows(controls_handles): ord is the iteration order of the set.
get_windows(osv, ord) ==
    LET r == WindowsLoop(osv, ord, 1,
                 [windows |-> <<>>, window_handles |-> {}, raised |-> FALSE])
    IN  IF r.raised THEN [r EXCEPT !.windows = <<>>] ELSE r

Range(s) == {s[i] : i \in DOMAIN s}
HandlesOf(ws) == {ws[i].handle : i \in DOMAIN ws}

(***************************************************************************)
(* Desktop.get_foreground_window and get_window_from_element_handle: the   *)
(* foreground element is given by its chain of handles up to, and not      *)
(* including, the root; the walk stops at the control whose parent is the  *)
(* root, or has no parent.                                                 *)
(***************************************************************************)
RECURSIVE get_window_from_element_handle(_, _)
get_window_from_element_handle(chain, i) ==
    IF i = Len(chain) THEN chain[i]
    ELSE get_window_from_element_handle(chain, i + 1)

(***************************************************************************)
(* Desktop.get_active_window. fg is [throws, chain]; the result is a       *)
(* Window or None. Every exception is caught and gives None.               *)
(***************************************************************************)
SynthesizedWindowNever(h, c) == None

\* lines 614-631: the Window built from the foreground control itself
SynthesizedWindow(h, c) ==
    [name |-> c.name, is_browser |-> c.browser, depth |-> 0,
     bounding_box |-> BoundingBox(c.rect), status |-> get_window_status(c),
     handle |-> h, process_id |-> c.pid]

FindByHandle(windows, h) ==
    LET S == {i \in DOMAIN windows : windows[i].handle = h}
    IN  IF S = {} THEN 0 ELSE CHOOSE i \in S : \A j \in S : i <= j

get_active_window_of_any_class(osv, fg, windows) ==
    IF fg.throws THEN None
    ELSE
      LET h == get_window_from_element_handle(fg.chain, 1)
          c == osv[h]
          i == FindByHandle(windows, h)
      IN  IF c.fail = "resolve" THEN None
          ELSE IF i # 0 THEN windows[i]
          ELSE IF c.fail \in {"bounds", "status"} THEN None
          ELSE SynthesizedWindow(h, c)

get_active_window(osv, fg, windows) ==
    IF fg.throws THEN None
    ELSE
      LET h == get_window_from_element_handle(fg.chain, 1)
          c == osv[h]
          i == FindByHandle(windows, h)
      IN  IF c.fail = "resolve" THEN None
          ELSE IF c.cls = "Progman" THEN None
          ELSE IF i # 0 THEN windows[i]
          ELSE IF c.fail \in {"bounds", "status"} THEN None
          ELSE SynthesizedWindow(h, c)

(***************************************************************************)
(* list.remove and the membership test of lines 88-89                      *)
(***************************************************************************)
IndexOf(seq, x) ==
    LET S == {i \in DOMAIN seq : seq[i] = x}
    IN  IF S = {} THEN 0 ELSE CHOOSE i \in S : \A j \in S : i <= j

RemoveAt(seq, i) == SubSeq(seq, 1, i - 1) \o SubSeq(seq, i + 1, Len(seq))

remove_active_never(windows, active_window) == windows

\* if active_window is not None and active_window in windows: windows.remove(...)
remove_active(windows, active_window) ==
    IF active_window # None /\ IndexOf(windows, active_window) # 0
    THEN RemoveAt(windows, IndexOf(windows, active_window))
    ELSE windows

(***************************************************************************)
(* The virtual desktops (lines 78-86). vdm is "ok", "RuntimeError" or      *)
(* another exception, which get_state does not catch.                      *)
(***************************************************************************)
Desk1 == [id |-> "11111111", name |-> "Desktop 1"]
Desk2 == [id |-> "22222222", name |-> "Desktop 2"]
DefaultDesktop == [id |-> "00000000-0000-0000-0000-000000000000", name |-> "Default Desktop"]

VdmOutcomes == {"ok", "RuntimeError", "OSError"}

active_desktop_of(vdm) == IF vdm = "ok" THEN Desk1 ELSE DefaultDesktop
all_desktops_of(vdm)   == IF vdm = "ok" THEN <<Desk1, Desk2>> ELSE <<DefaultDesktop>>

(***************************************************************************)
(* The screenshot (lines 101-120, 785-799). An image is its kind and size. *)
(* A scale is the fraction num/den.                                        *)
(***************************************************************************)
padding == 5

MAX_IMAGE_WIDTH  == 1920
MAX_IMAGE_HEIGHT == 1080

One == [num |-> 1, den |-> 1]

\* int(x * scale) of a size x >= 0
Scaled(x, scale) == (x * scale.num) \div scale.den

get_screenshot(screen) ==
    [kind |-> "image", width |-> screen.width, height |-> screen.height,
     annotated |-> FALSE, resized |-> FALSE]

\* int(w + 1.5 * padding)
PaddedSize(x) == (2 * x + 3 * padding) \div 2

annotated_screenshot_size(screen) ==
    [kind |-> "image", width |-> PaddedSize(screen.width),
     height |-> PaddedSize(screen.height), annotated |-> TRUE, resized |-> FALSE]

resize(img, scale) ==
    [img EXCEPT !.width = Scaled(img.width, scale), !.height = Scaled(img.height, scale),
                !.resized = TRUE]

take_screenshot(req, screen) ==
    IF ~req.use_vision THEN None
    ELSE
      LET shot0 == IF req.use_annotation THEN annotated_screenshot_size(screen)
                   ELSE get_screenshot(screen)
          shot1 == IF req.scale # One THEN resize(shot0, req.scale) ELSE shot0
      IN  IF req.as_bytes THEN [shot1 EXCEPT !.kind = "bytes"] ELSE shot1

(***************************************************************************)
(* The tool handlers' calls of get_state.                                  *)
(***************************************************************************)
MinScale(a, b) == IF a.num * b.den <= b.num * a.den THEN a ELSE b

state_tool_scale_by_width(screen) ==
    IF screen.width > MAX_IMAGE_WIDTH
    THEN [num |-> MAX_IMAGE_WIDTH, den |-> screen.width] ELSE One

\* __main__.state_tool: the scale that caps the image at 1920x1080
state_tool_scale(screen) ==
    LET scale_width  == IF screen.width > MAX_IMAGE_WIDTH
                        THEN [num |-> MAX_IMAGE_WIDTH, den |-> screen.width] ELSE One
        scale_height == IF screen.height > MAX_IMAGE_HEIGHT
                        THEN [num |-> MAX_IMAGE_HEIGHT, den |-> screen.height] ELSE One
    IN  MinScale(scale_width, scale_height)

\* __main__.state_tool
mcp_request(use_vision, screen) ==
    [use_vision |-> use_vision, use_annotation |-> TRUE, as_bytes |-> TRUE,
     scale |-> state_tool_scale(screen)]

\* fastapi_server.state_tool
http_request(use_vision) ==
    [use_vision |-> use_vision, use_annotation |-> TRUE, as_bytes |-> FALSE,
     scale |-> One]

(***************************************************************************)
(* Desktop.get_state up to the assembly of the DesktopState (lines 62-129).*)
(* inp is what the platform shows this call; `me` is the identity of the   *)
(* DesktopState object the call constructs.                                *)
(***************************************************************************)
other_handles_all(controls_handles, windows_handles) == controls_handles

\* line 95: controls_handles - windows_handles
other_handles(controls_handles, windows_handles) == controls_handles \ windows_handles

get_state_assemble(inp, me) ==
    LET controls_handles == Range(inp.order)
        gwr              == get_windows(inp.os, inp.order)
        active_window    == get_active_window(inp.os, inp.fg, gwr.windows)
        active_window_handle ==
            IF active_window # None THEN active_window.handle ELSE 0
        windows          == remove_active(gwr.windows, active_window)
        other_windows_handles == other_handles(controls_handles, gwr.window_handles)
        tree_args        == [active |-> active_window_handle,
                             others |-> other_windows_handles]
    IN  IF inp.vdm \notin {"ok", "RuntimeError"} \/ inp.tree.throws
        THEN [raised |-> TRUE, state |-> None, tree_args |-> tree_args,
              tree_calls |-> IF inp.vdm \in {"ok", "RuntimeError"} THEN 1 ELSE 0,
              gwr |-> gwr, candidates |-> controls_handles]
        ELSE [raised |-> FALSE,
              state |-> [obj |-> me,
                         active_window |-> active_window,
                         windows |-> windows,
                         active_desktop |-> active_desktop_of(inp.vdm),
                         all_desktops |-> all_desktops_of(inp.vdm),
                         screenshot |-> take_screenshot(inp.req, inp.screen),
                         tree_state |-> [interactive_nodes |-> inp.tree.nodes]],
              tree_args |-> tree_args, tree_calls |-> 1, gwr |-> gwr,
              candidates |-> controls_handles]

(***************************************************************************)
(* What the platform can show a call: the tree walker's result (Tree is    *)
(* not part of service.py), the virtual desktops, the request, the screen. *)
(***************************************************************************)
XPathA == <<"PaneControl", "/", "WindowControl", "[", "1", "]", "/",
            "ButtonControl", "[", "1", "]">>
XPathB == <<"PaneControl", "/", "WindowControl", "[", "1", "]", "/",
            "ButtonControl", "[", "2", "]">>
XPathC == <<"PaneControl", "/", "WindowControl", "[", "2", "]", "/",
            "EditControl", "[", "1", "]">>

NodeA == [name |-> "OK", xpath |-> XPathA,
          bounding_box |-> [left |-> 10, top |-> 20, right |-> 30, bottom |-> 40]]
NodeB == [name |-> "Cancel", xpath |-> XPathB,
          bounding_box |-> [left |-> 50, top |-> 20, right |-> 70, bottom |-> 40]]
NodeC == [name |-> "Search", xpath |-> XPathC,
          bounding_box |-> [left |-> 0, top |-> 0, right |-> 100, bottom |-> 12]]

TreeOf(ns)  == [throws |-> FALSE, nodes |-> ns]
TreeThrows  == [throws |-> TRUE, nodes |-> <<>>]

ScreenHD == [width |-> 1920, height |-> 1080]
Screen4K == [width |-> 3840, height |-> 2160]

\* The rest of an input, next to the windowing system and the foreground.
BaseRest == [tree |-> TreeOf(<<NodeA, NodeB>>), vdm |-> "ok",
             req |-> mcp_request(FALSE, ScreenHD), screen |-> ScreenHD]

Rests ==
    {BaseRest}
    \cup {[BaseRest EXCEPT !.tree = t] : t \in {TreeThrows, TreeOf(<<>>), TreeOf(<<NodeC>>)}}
    \cup {[BaseRest EXCEPT !.vdm = v] : v \in VdmOutcomes}
    \cup {[BaseRest EXCEPT !.req = mcp_request(TRUE, sc), !.screen = sc] :
              sc \in {ScreenHD, Screen4K}}
    \cup {[BaseRest EXCEPT !.req = http_request(TRUE)]}

\* The surfaces of the desktops a whole get_state call is run on.
SnapSurfaces ==
    { Good,
      [Good EXCEPT !.iconic = TRUE, !.rect = [left |-> 0, top |-> 0, right |-> 0, bottom |-> 0]],
      [Good EXCEPT !.rect = [left |-> 0, top |-> 0, right |-> 0, bottom |-> 0]],
      [Good EXCEPT !.nchildren = 0],
      [Good EXCEPT !.pattern.CanMaximize = FALSE],
      [Good EXCEPT !.fail = "overlay"],
      [Good EXCEPT !.fail = "status"],
      [Good EXCEPT !.cls = "Progman"] }

\* The foreground element: a top-level surface itself, or a child control
\* (handle 0) of one; or the query throws.
Foregrounds ==
    {[throws |-> TRUE, chain |-> <<>>]}
    \cup {[throws |-> FALSE, chain |-> ch] :
              ch \in {<<h>> : h \in Handles} \cup {<<0, 1>>}}

MakeInput(osv, ord, fg, rest) ==
    [os |-> osv, order |-> ord, fg |-> fg, tree |-> rest.tree, vdm |-> rest.vdm,
     req |-> rest.req, screen |-> rest.screen]

(***************************************************************************)
(* The Desktop instance: get_state in three steps per caller (assemble     *)
(* from locals, line 122 store, line 133 return), and the actions that     *)
(* consult desktop_state.                                                  *)
(***************************************************************************)
InFlight == {c \in callers : pc[c] # "idle"}

Raised == [raised |-> TRUE]

\* lines 62-120: everything up to the construction of the DesktopState
GsAssemble(c) ==
    /\ pc[c] = "idle"
    /\ \E inp \in inputs :
          LET r == get_state_assemble(inp, c) IN
          IF r.raised
          THEN /\ returned' = [returned EXCEPT ![c] = Raised]
               /\ asm' = [asm EXCEPT ![c] = r]
               /\ UNCHANGED pc
          ELSE /\ asm' = [asm EXCEPT ![c] = r]
               /\ pc' = [pc EXCEPT ![c] = "store"]
               /\ UNCHANGED returned
    /\ UNCHANGED <<inputs, callers, desktop_state, lastDone, lastAction>>
    /\ UNCHANGED <<clsVars, xpVars, annotVars, fnVars, inputVars>>

store_first(c) == IF desktop_state = None THEN asm[c].state ELSE desktop_state

\* line 122: self.desktop_state = DesktopState(...)
store(c) == asm[c].state

GsStore(c) ==
    /\ pc[c] = "store"
    /\ desktop_state' = store(c)
    /\ pc' = [pc EXCEPT ![c] = "return"]
    /\ UNCHANGED <<inputs, callers, asm, returned, lastDone, lastAction>>
    /\ UNCHANGED <<clsVars, xpVars, annotVars, fnVars, inputVars>>

\* line 133: return self.desktop_state
GsReturn(c) ==
    /\ pc[c] = "return"
    /\ returned' = [returned EXCEPT ![c] = desktop_state]
    /\ lastDone' = asm[c].state
    /\ asm' = [asm EXCEPT ![c] = None]
    /\ pc' = [pc EXCEPT ![c] = "idle"]
    /\ UNCHANGED <<inputs, callers, desktop_state, lastAction>>
    /\ UNCHANGED <<clsVars, xpVars, annotVars, fnVars, inputVars>>

NextState == \E c \in callers : GsAssemble(c) \/ GsStore(c) \/ GsReturn(c)

DeskInit(ins, cs) ==
    /\ inputs = ins
    /\ callers = cs
    /\ pc = [c \in cs |-> "idle"]
    /\ asm = [c \in cs |-> None]
    /\ returned = [c \in cs |-> None]
    /\ desktop_state = None
    /\ lastDone = None
    /\ lastAction = None

(***************************************************************************)
(* SpecSnapshot: one caller, one desktop, every small desktop.             *)
(***************************************************************************)
InitSnapshot ==
    /\ \E osv \in [Handles -> SnapSurfaces], fg \in Foregrounds, rest \in Rests :
          \E ord \in IterOrders(get_controls_handles(osv)) :
              DeskInit({MakeInput(osv, ord, fg, rest)}, {1})
    /\ ClsIdle /\ XPathIdle /\ AnnotIdle /\ FnIdle /\ InputIdle

SpecSnapshot == InitSnapshot /\ [][NextState]_vars

\* C1: in every DesktopState produced by get_state, no Window of the
\* `windows` list has the handle of the active window.
ActiveExcluded(st) ==
    st.active_window # None =>
        \A i \in DOMAIN st.windows : st.windows[i].handle # st.active_window.handle

C1_ActiveNotInWindows ==
    /\ desktop_state # None => ActiveExcluded(desktop_state)
    /\ \A c \in callers :
          (returned[c] # None /\ returned[c] # Raised) => ActiveExcluded(returned[c])

\* The active window was an entry of the classifier's list, and another
\* window remains in the list.
C1_Witness ==
    /\ desktop_state # None
    /\ desktop_state.active_window # None
    /\ \E c \in callers :
          /\ pc[c] = "return"
          /\ desktop_state.active_window.handle \in asm[c].gwr.window_handles
          /\ Len(asm[c].gwr.windows) = 2
          /\ Len(desktop_state.windows) = 1

(***************************************************************************)
(* The actions that consult desktop_state. They are modelled between the   *)
(* get_state calls of a dispatcher that serves one request at a time.      *)
(***************************************************************************)
\* seq[i] of a Python list: "IndexError" when i is out of range
InRange(seq, i) == -Len(seq) <= i /\ i < Len(seq)
PyIndex(seq, i) == IF i >= 0 THEN seq[i + 1] ELSE seq[Len(seq) + i + 1]

label_node_next(interactive_nodes, label) ==
    IF InRange(interactive_nodes, label + 1) THEN PyIndex(interactive_nodes, label + 1)
    ELSE PyIndex(interactive_nodes, label)

\* line 422: tree_state.interactive_nodes[label]
label_node(interactive_nodes, label) == PyIndex(interactive_nodes, label)

\* Desktop.get_element_handle_from_label, up to the xpath it resolves
ResolveLabel(label) ==
    /\ InFlight = {}
    /\ lastAction' =
         IF desktop_state = None
         THEN [op |-> "label", outcome |-> "AttributeError", label |-> label,
               done |-> lastDone]
         ELSE LET ns == desktop_state.tree_state.interactive_nodes IN
              IF ~InRange(ns, label)
              THEN [op |-> "label", outcome |-> "IndexError", label |-> label,
                    done |-> lastDone]
              ELSE [op |-> "label", outcome |-> "ok", label |-> label,
                    xpath |-> label_node(ns, label).xpath,
                    done |-> lastDone]
    /\ UNCHANGED <<inputs, callers, pc, asm, desktop_state, returned, lastDone>>
    /\ UNCHANGED <<clsVars, xpVars, annotVars, fnVars, inputVars>>

Sizes == {None, [width |-> 640, height |-> 480]}
Locs  == {None, [x |-> 5, y |-> 5]}

resize_app_unchecked(size, loc, live) ==
    IF desktop_state = None \/ live = None
    THEN [op |-> "resize", outcome |-> "AttributeError", moved |-> FALSE]
    ELSE [op |-> "resize", outcome |-> "returned", window |-> desktop_state.active_window,
          msg |-> <<" resized">>, status |-> 0, moved |-> TRUE,
          move |-> [handle |-> 0, x |-> live.left, y |-> live.top,
                    width |-> width(live), height |-> height(live)]]

\* Desktop.resize_app(size, loc); live is the control the handle resolves to
\* now (None: ControlFromHandle throws).
resize_app(size, loc, live) ==
    IF desktop_state = None
    THEN [op |-> "resize", outcome |-> "AttributeError", moved |-> FALSE]
    ELSE
      LET active_window == desktop_state.active_window IN
      IF active_window = None
      THEN [op |-> "resize", outcome |-> "returned", window |-> active_window,
            msg |-> <<"No active window found">>, status |-> 1, moved |-> FALSE]
      ELSE IF active_window.status = "Minimized"
      THEN [op |-> "resize", outcome |-> "returned", window |-> active_window,
            msg |-> active_window.name \o <<" is minimized">>, status |-> 1,
            moved |-> FALSE]
      ELSE IF active_window.status = "Maximized"
      THEN [op |-> "resize", outcome |-> "returned", window |-> active_window,
            msg |-> active_window.name \o <<" is maximized">>, status |-> 1,
            moved |-> FALSE]
      ELSE IF live = None
      THEN [op |-> "resize", outcome |-> "raised", window |-> active_window,
            moved |-> FALSE]
      ELSE
        LET loc1  == IF loc = None THEN [x |-> live.left, y |-> live.top] ELSE loc
            size1 == IF size = None
                     THEN [width |-> width(live), height |-> height(live)] ELSE size
        IN [op |-> "resize", outcome |-> "returned", window |-> active_window,
            msg |-> active_window.name \o <<" resized">>, status |-> 0,
            moved |-> TRUE,
            move |-> [handle |-> active_window.handle, x |-> loc1.x, y |-> loc1.y,
                      width |-> size1.width, height |-> size1.height]]

ResizeApp ==
    /\ InFlight = {}
    /\ \E size \in Sizes, loc \in Locs, live \in Rects \cup {None} :
          lastAction' = [done |-> lastDone] @@ resize_app(size, loc, live)
    /\ UNCHANGED <<inputs, callers, pc, asm, desktop_state, returned, lastDone>>
    /\ UNCHANGED <<clsVars, xpVars, annotVars, fnVars, inputVars>>

\* One tool request at a time: a get_state step, or an action between calls.
NextActions ==
    \/ NextState
    \/ \E label \in -1..MaxLabel : ResolveLabel(label)
    \/ ResizeApp

(***************************************************************************)
(* SpecShared: several callers on one Desktop instance.                    *)
(***************************************************************************)
SharedOs(s1) == [h \in Handles |-> IF h = 1 THEN s1 ELSE Good]
SharedOrder == [i \in Handles |-> i]
Fg1 == [throws |-> FALSE, chain |-> <<1>>]
EmptyRect == [left |-> 0, top |-> 0, right |-> 0, bottom |-> 0]

SharedInputs ==
    { MakeInput(SharedOs(Good), SharedOrder, Fg1, BaseRest),
      MakeInput(SharedOs([Good EXCEPT !.iconic = TRUE, !.rect = EmptyRect]), SharedOrder, Fg1,
                [BaseRest EXCEPT !.tree = TreeOf(<<NodeC>>)]),
      MakeInput(SharedOs([Good EXCEPT !.zoomed = TRUE]), SharedOrder, Fg1,
                [BaseRest EXCEPT !.tree = TreeOf(<<NodeB, NodeA>>)]),
      MakeInput(SharedOs([Good EXCEPT !.cls = "Progman"]), SharedOrder, Fg1,
                [BaseRest EXCEPT !.tree = TreeOf(<<>>)]),
      MakeInput(SharedOs(Good), SharedOrder, Fg1, [BaseRest EXCEPT !.tree = TreeThrows]) }

ConcurrentInputs ==
    { MakeInput(SharedOs(Good), SharedOrder, Fg1, BaseRest),
      MakeInput(SharedOs(Good), SharedOrder, Fg1, [BaseRest EXCEPT !.tree = TreeThrows]) }

InitShared ==
    /\ DeskInit(ConcurrentInputs, 1..NumCallers)
    /\ ClsIdle /\ XPathIdle /\ AnnotIdle /\ FnIdle /\ InputIdle

SpecShared == InitShared /\ [][NextState]_vars

(***************************************************************************)
(* SpecActions: a dispatcher that serves one request at a time (the        *)
(* handlers of fastapi_server.py block the event loop), snapshots and      *)
(* actions in any order.                                                   *)
(***************************************************************************)
InitActions ==
    /\ DeskInit(SharedInputs, {1})
    /\ ClsIdle /\ XPathIdle /\ AnnotIdle /\ FnIdle /\ InputIdle

SpecActions == InitActions /\ [][NextActions]_vars

\* C3: with several get_state calls running at once, desktop_state always
\* holds a DesktopState assembled by one call, and each call returns the
\* DesktopState it assembled itself.
C3_SnapshotsDoNotInterleave ==
    /\ desktop_state # None => desktop_state.obj \in callers
    /\ \A c \in callers :
          (returned[c] # None /\ returned[c] # Raised) => returned[c].obj = c

\* C4: label resolution and resize_app consult the DesktopState of the
\* get_state call that completed last: label i goes through the xpath of
\* interactive_nodes[i] of that state, resize_app reads its active_window.
C4_ActionsConsultLastSnapshot ==
    lastAction # None =>
        /\ (lastAction.op = "label" /\ lastAction.outcome = "ok") =>
              /\ lastAction.done # None
              /\ InRange(lastAction.done.tree_state.interactive_nodes, lastAction.label)
              /\ lastAction.xpath =
                    PyIndex(lastAction.done.tree_state.interactive_nodes,
                            lastAction.label).xpath
        /\ (lastAction.op = "label" /\ lastAction.outcome = "IndexError") =>
              /\ lastAction.done # None
              /\ ~InRange(lastAction.done.tree_state.interactive_nodes, lastAction.label)
        /\ (lastAction.op = "resize" /\ lastAction.outcome # "AttributeError") =>
              /\ lastAction.done # None
              /\ lastAction.window = lastAction.done.active_window
        /\ lastAction.outcome = "AttributeError" => lastAction.done = None

\* Label 1 was resolved through the second node of the snapshot <<B, A>>,
\* which is the one the last completed get_state call stored.
C4_Witness ==
    /\ lastAction # None
    /\ lastAction.op = "label" /\ lastAction.outcome = "ok" /\ lastAction.label = 1
    /\ lastAction.xpath = XPathA
    /\ lastAction.done # None
    /\ lastAction.done.tree_state.interactive_nodes = <<NodeB, NodeA>>
    /\ lastDone = lastAction.done

(***************************************************************************)
(* Structural addresses. A control tree is a function from node ids 0..n-1 *)
(* to [parent, ctype, rid]; node 0 is the root (parent -1), GetChildren    *)
(* returns the children in id order. A string is its sequence of tokens:   *)
(* a control type name, "/", "[", "]", "-" or a decimal digit.             *)
(***************************************************************************)
PaneType   == 50033
ButtonType == 50000
EditType   == 50004

ControlTypeName(ctype) ==
    CASE ctype = PaneType   -> "PaneControl"
      [] ctype = ButtonType -> "ButtonControl"
      [] ctype = EditType   -> "EditControl"

DigitTokens == <<"0", "1", "2", "3", "4", "5", "6", "7", "8", "9">>
IsDigit(t) == \E i \in 1..10 : DigitTokens[i] = t
DigitValue(t) == (CHOOSE i \in 1..10 : DigitTokens[i] = t) - 1

\* str(n) of an integer n >= 0
RECURSIVE Str(_)
Str(n) == IF n < 10 THEN <<DigitTokens[n + 1]>>
          ELSE Str(n \div 10) \o <<DigitTokens[(n % 10) + 1]>>

\* int(s) of a string of digits
RECURSIVE ParseInt(_)
ParseInt(s) == IF Len(s) = 1 THEN DigitValue(s[1])
          ELSE 10 * ParseInt(SubSeq(s, 1, Len(s) - 1)) + DigitValue(s[Len(s)])

\* sep.join(parts)
RECURSIVE Join(_, _)
Join(parts, sep) ==
    IF parts = <<>> THEN <<>>
    ELSE IF Len(parts) = 1 THEN parts[1]
    ELSE parts[1] \o <<sep>> \o Join(Tail(parts), sep)

\* s.split(sep)
RECURSIVE Split(_, _)
Split(s, sep) ==
    LET S == {i \in DOMAIN s : s[i] = sep} IN
    IF S = {} THEN <<s>>
    ELSE LET i == CHOOSE k \in S : \A j \in S : k <= j
         IN  <<SubSeq(s, 1, i - 1)>> \o Split(SubSeq(s, i + 1, Len(s)), sep)

Reverse(s) == [i \in 1..Len(s) |-> s[Len(s) + 1 - i]]

RECURSIVE SelectIds(_, _, _)
\* the ids i..n-1 that satisfy keep, in id order
SelectIds(i, n, keep) ==
    IF i >= n THEN <<>>
    ELSE (IF i \in keep THEN <<i>> ELSE <<>>) \o SelectIds(i + 1, n, keep)

GetChildren(tr, p) ==
    SelectIds(0, Len(tr), {i \in 0..(Len(tr) - 1) : tr[i + 1].parent = p})

Node(tr, i) == tr[i + 1]

\* "-".join(map(str, control.GetRuntimeId()))
RuntimeIdStr(tr, i) == Join([k \in DOMAIN Node(tr, i).rid |-> Str(Node(tr, i).rid[k])], "-")

xpath_index_zero_based(index) == Str(index)

\* line 727: the 1-based position among the same-type siblings
xpath_index(index) == Str(index + 1)

\* The loop of get_xpath_from_element: the parts from `current` up to the root.
RECURSIVE PathParts(_, _)
PathParts(tr, current) ==
    LET parent == Node(tr, current).parent IN
    IF parent = -1
    THEN << <<ControlTypeName(Node(tr, current).ctype)>> >>
    ELSE
      LET children == GetChildren(tr, parent)
          same     == SelectSeq(children,
                          LAMBDA ch : Node(tr, ch).ctype = Node(tr, current).ctype)
          same_type_children == [k \in DOMAIN same |-> RuntimeIdStr(tr, same[k])]
          index    == IndexOf(same_type_children, RuntimeIdStr(tr, current)) - 1
          part     == <<ControlTypeName(Node(tr, current).ctype), "[">>
                      \o xpath_index(index) \o <<"]">>
      IN  <<part>> \o PathParts(tr, parent)

\* Desktop.get_xpath_from_element
get_xpath_from_element(tr, element) ==
    Join(Reverse(PathParts(tr, element)), "/")

\* re.fullmatch(r"(\w+)(?:\[(\d+)\])?", part): the groups, or None.
\* A word is one token here; an index of 0 stands for "no index group".
IsWord(t) == t \notin {"/", "[", "]", "-"}

Fullmatch(part) ==
    IF Len(part) = 1 /\ IsWord(part[1])
    THEN [control_type |-> part[1], index |-> 0, has_index |-> FALSE]
    ELSE IF /\ Len(part) >= 4 /\ IsWord(part[1]) /\ part[2] = "[" /\ part[Len(part)] = "]"
            /\ \A k \in 3..(Len(part) - 1) : IsDigit(part[k])
    THEN [control_type |-> part[1], index |-> ParseInt(SubSeq(part, 3, Len(part) - 1)),
          has_index |-> TRUE]
    ELSE None

\* The loop of get_element_from_xpath over parts[1:]; -1 is an IndexError.
RECURSIVE Descend(_, _, _, _)
Descend(tr, parts, k, element) ==
    IF k > Len(parts) THEN element
    ELSE
      LET m == Fullmatch(parts[k]) IN
      IF m = None THEN Descend(tr, parts, k + 1, element)
      ELSE
        LET children == GetChildren(tr, element)
            same_type_children ==
                SelectSeq(children,
                    LAMBDA ch : ControlTypeName(Node(tr, ch).ctype) = m.control_type)
            pos == IF m.index # 0 THEN m.index ELSE 1
        IN  IF pos > Len(same_type_children) THEN -1
            ELSE Descend(tr, parts, k + 1, same_type_children[pos])

\* Desktop.get_element_from_xpath
get_element_from_xpath(tr, xpath) ==
    Descend(tr, Split(xpath, "/"), 2, 0)

(***************************************************************************)
(* SpecXPath: the address of one control of a live tree, and its lookup.   *)
(***************************************************************************)
MakeTree(parents, ctypes) ==
    [i \in 1..Len(parents) |->
        [parent |-> parents[i], ctype |-> ctypes[i], rid |-> <<42, i - 1>>]]

\* Every tree of MaxTreeNodes controls under a pane root.
SmallTrees ==
    { MakeTree(ps, ts) :
        ps \in {q \in [1..MaxTreeNodes -> -1..(MaxTreeNodes - 2)] :
                   /\ q[1] = -1
                   /\ \A i \in 2..MaxTreeNodes : q[i] >= 0 /\ q[i] < i - 1},
        ts \in {t \in [1..MaxTreeNodes -> {PaneType, ButtonType}] : t[1] = PaneType} }

\* A window with WideSiblings buttons and an edit control in between.
WideTree ==
    [i \in 1..(WideSiblings + 3) |->
        [parent |-> IF i = 1 THEN -1 ELSE IF i = 2 THEN 0 ELSE 1,
         ctype  |-> IF i <= 2 THEN PaneType ELSE IF i = 5 THEN EditType ELSE ButtonType,
         rid    |-> <<42, i - 1>>]]

InitXPath ==
    /\ tree \in SmallTrees \cup {WideTree}
    /\ \E e \in 0..(Len(tree) - 1) : xp = [stage |-> "element", element |-> e]
    /\ ClsIdle /\ DeskIdle /\ AnnotIdle /\ FnIdle /\ InputIdle

XPathFromElement ==
    /\ xp.stage = "element"
    /\ xp' = [stage |-> "xpath", element |-> xp.element,
              xpath |-> get_xpath_from_element(tree, xp.element)]
    /\ UNCHANGED <<tree, clsVars, deskVars, annotVars, fnVars, inputVars>>

ElementFromXPath ==
    /\ xp.stage = "xpath"
    /\ xp' = [stage |-> "resolved", element |-> xp.element, xpath |-> xp.xpath,
              found |-> get_element_from_xpath(tree, xp.xpath)]
    /\ UNCHANGED <<tree, clsVars, deskVars, annotVars, fnVars, inputVars>>

NextXPath == XPathFromElement \/ ElementFromXPath

SpecXPath == InitXPath /\ [][NextXPath]_vars

\* C6: for every control e of an unchanged control tree,
\* get_element_from_xpath(get_xpath_from_element(e)) is e.
C6_XPathRoundTrip ==
    (xp # None /\ xp.stage = "resolved") => xp.found = xp.element

\* The tenth button of the wide tree, behind an edit control, came back.
C6_Witness ==
    /\ xp # None /\ xp.stage = "resolved"
    /\ tree = WideTree
    /\ xp.found = xp.element
    /\ Node(tree, xp.element).ctype = ButtonType
    /\ Len(xp.xpath) = 12

(***************************************************************************)
(* Desktop.get_annotated_screenshot: one draw_annotation task per node,    *)
(* run by the workers of a thread pool. A task draws the bounding box,     *)
(* then the label; the with-block returns when every task has finished.    *)
(***************************************************************************)
font_size == 12

\* draw.textlength(str(label), font=font): the advance of one glyph
GlyphAdvance == 7
textlength(text) == GlyphAdvance * Len(text)

\* lines 819-824
adjusted_box(box, vs) ==
    [left   |-> (box.left - vs.left) + padding,
     top    |-> (box.top - vs.top) + padding,
     right  |-> (box.right - vs.left) + padding,
     bottom |-> (box.bottom - vs.top) + padding]

\* lines 829-837: the filled label box above the top right corner
label_box(label, box, vs) ==
    LET adj == adjusted_box(box, vs)
        label_width  == textlength(Str(label))
        label_height == font_size
        label_x1 == adj.right - label_width
        label_y1 == adj.top - label_height - 4
    IN  [left |-> label_x1, top |-> label_y1,
         right |-> label_x1 + label_width, bottom |-> label_y1 + label_height + 4]

draw_tasks_from_one(ns) == [i \in DOMAIN ns |-> [label |-> i, node |-> ns[i]]]

\* line 850: executor.map(draw_annotation, range(len(nodes)), nodes)
draw_tasks(ns) == [i \in DOMAIN ns |-> [label |-> i - 1, node |-> ns[i]]]

\* lines 792-811 and the submission of the tasks
AnnotStart ==
    /\ tasks = <<>> /\ ~annotDone /\ nodes # <<>>
    /\ tasks' = draw_tasks(nodes)
    /\ taskpc' = [i \in DOMAIN nodes |-> "queued"]
    /\ UNCHANGED <<nodes, canvas, vscreen, annotDone, clsVars, deskVars, xpVars, fnVars, inputVars>>

\* line 826: draw.rectangle(adjusted_box, outline=color, width=2)
DrawBox(i) ==
    /\ i \in DOMAIN taskpc /\ taskpc[i] = "queued"
    /\ canvas' = canvas \cup
          {[what |-> "rectangle", text |-> <<>>,
            box |-> adjusted_box(tasks[i].node.bounding_box, vscreen)]}
    /\ taskpc' = [taskpc EXCEPT ![i] = "box"]
    /\ UNCHANGED <<nodes, tasks, vscreen, annotDone, clsVars, deskVars, xpVars, fnVars, inputVars>>

\* lines 840-846: the label background and the text str(label)
DrawLabel(i) ==
    /\ i \in DOMAIN taskpc /\ taskpc[i] = "box"
    /\ canvas' = canvas \cup
          {[what |-> "label", text |-> Str(tasks[i].label),
            box |-> label_box(tasks[i].label, tasks[i].node.bounding_box, vscreen)]}
    /\ taskpc' = [taskpc EXCEPT ![i] = "done"]
    /\ UNCHANGED <<nodes, tasks, vscreen, annotDone, clsVars, deskVars, xpVars, fnVars, inputVars>>

shutdown_nowait(tpc) == TRUE

\* line 849: ThreadPoolExecutor.__exit__ is shutdown(wait=True), which returns
\* when every submitted task has finished
shutdown_wait(tpc) == \A i \in DOMAIN tpc : tpc[i] = "done"

\* lines 849-851: leaving the with-block waits for the workers
AnnotReturn ==
    /\ ~annotDone
    /\ (nodes = <<>> \/ tasks # <<>>)
    /\ shutdown_wait(taskpc)
    /\ annotDone' = TRUE
    /\ UNCHANGED <<nodes, tasks, taskpc, canvas, vscreen, clsVars, deskVars, xpVars, fnVars, inputVars>>

NextAnnot ==
    \/ AnnotStart
    \/ \E i \in 1..MaxNodes : DrawBox(i) \/ DrawLabel(i)
    \/ AnnotReturn

(***************************************************************************)
(* SpecAnnot: the annotator on every short list of interactive nodes.      *)
(***************************************************************************)
NodeLists == UNION {[1..n -> {NodeA, NodeB, NodeC}] : n \in 0..MaxNodes}

\* uia.GetVirtualScreenRect() and the size of the capture of all screens: one
\* monitor, and two monitors with the second one to the left and higher up.
VirtualScreens ==
    {[left |-> 0, top |-> 0, width |-> 1920, height |-> 1080],
     [left |-> -1920, top |-> -200, width |-> 3840, height |-> 1280]}

InitAnnot ==
    /\ nodes \in NodeLists
    /\ vscreen \in VirtualScreens
    /\ tasks = <<>> /\ taskpc = <<>> /\ canvas = {} /\ annotDone = FALSE
    /\ ClsIdle /\ DeskIdle /\ XPathIdle /\ FnIdle /\ InputIdle

SpecAnnot == InitAnnot /\ [][NextAnnot]_vars

\* C5: the label drawn with index N is drawn for the bounding box of the
\* element at position N of interactive_nodes, and that element's box is on
\* the canvas, whatever the order in which the pool runs the tasks.
C5_LabelMatchesNode ==
    \A d \in canvas :
        d.what = "label" =>
            LET N == ParseInt(d.text) IN
            /\ N < Len(nodes)
            /\ d.box = label_box(N, nodes[N + 1].bounding_box, vscreen)
            /\ \E r \in canvas :
                  /\ r.what = "rectangle"
                  /\ r.box = adjusted_box(nodes[N + 1].bounding_box, vscreen)

\* Label 1 is on the canvas while the task of label 0 has drawn nothing.
C5_Witness ==
    /\ Len(nodes) >= 2 /\ nodes[1].bounding_box # nodes[2].bounding_box
    /\ taskpc # <<>> /\ taskpc[1] = "queued" /\ taskpc[2] = "done"
    /\ \E d \in canvas : d.what = "label" /\ d.text = <<"1">>

(***************************************************************************)
(* SpecWindows: get_windows over every small windowing system.             *)
(***************************************************************************)
InitWindows ==
    /\ os \in [Handles -> Surfaces]
    /\ order \in IterOrders(get_controls_handles(os))
    /\ gw = None
    /\ DeskIdle /\ XPathIdle /\ AnnotIdle /\ FnIdle /\ InputIdle

\* get_state's call: get_windows(controls_handles=controls_handles)
GetWindowsOfHandles ==
    /\ gw = None
    /\ gw' = get_windows(os, order)
    /\ UNCHANGED <<os, order, deskVars, xpVars, annotVars, fnVars, inputVars>>

\* is_app_running's call: get_windows(), which enumerates by itself
GetWindowsDefault ==
    /\ gw = None
    /\ \E ord \in IterOrders(get_controls_handles(os)) :
          /\ order' = ord
          /\ gw' = get_windows(os, ord)
    /\ UNCHANGED <<os, deskVars, xpVars, annotVars, fnVars, inputVars>>

NextWindows == GetWindowsOfHandles \/ GetWindowsDefault

SpecWindows == InitWindows /\ [][NextWindows]_vars

(***************************************************************************)
(* Claims about the classifier (SpecWindows).                              *)
(***************************************************************************)
Candidates == Range(order)
Returned(h) == h \in HandlesOf(gw.windows)

\* The candidate passes the overlay check and the capability check.
PassesChecks(c) ==
    /\ c.fail = NoFail
    /\ c.nchildren # 0 /\ ~Contains(c.name, "Overlay")
    /\ c.kind \in {"WindowControl", "PaneControl"}
    /\ c.pattern.present /\ c.pattern.CanMinimize /\ c.pattern.CanMaximize

\* The candidate qualifies as a window by the classifier's rules.
Qualifies(c) ==
    PassesChecks(c) /\ ~(isempty(c.rect) /\ ~c.iconic)

\* C2: the window list returned by get_windows holds no two Window records
\* with the same handle.
C2_UniqueHandles ==
    gw # None =>
        \A i, j \in DOMAIN gw.windows :
            i # j => gw.windows[i].handle # gw.windows[j].handle

C2_Witness == gw # None /\ Len(gw.windows) >= 2

\* C7: when the processing of one candidate throws, only that candidate is
\* skipped: every other candidate that qualifies is in the returned list.
C7_OnlyBadHandleSkipped ==
    gw # None => \A h \in Candidates : Qualifies(os[h]) => Returned(h)

\* C8: a surface with zero children is never in the returned list, whatever
\* its name; a surface whose name contains "Overlay" is never in it, whatever
\* its children.
C8_OverlayFiltered ==
    gw # None =>
        \A h \in Handles :
            (os[h].nchildren = 0 \/ Contains(os[h].name, "Overlay")) => ~Returned(h)

C8_Witness ==
    /\ gw # None
    /\ \E h, k \in Candidates :
          /\ os[h].nchildren = 0 /\ ~Contains(os[h].name, "Overlay")
          /\ os[k].nchildren # 0 /\ Contains(os[k].name, "Overlay")
          /\ PassesChecks([os[h] EXCEPT !.nchildren = 2])
          /\ PassesChecks([os[k] EXCEPT !.name = <<"Notepad">>])
          /\ ~Returned(h) /\ ~Returned(k)

\* C9: a candidate that passes the overlay and capability checks and has an
\* empty bounding box is excluded when its status is not Minimized and is
\* included when its status is Minimized.
C9_EmptyBoundsRule ==
    gw # None =>
        \A h \in Candidates :
            (PassesChecks(os[h]) /\ isempty(os[h].rect)) =>
                (Returned(h) <=> os[h].iconic)

\* C10: a surface is in the returned list only if its window pattern reports
\* both CanMinimize and CanMaximize.
C10_NeedsBothCapabilities ==
    gw # None =>
        \A h \in Handles :
            Returned(h) =>
                /\ os[h].pattern.present
                /\ os[h].pattern.CanMinimize
                /\ os[h].pattern.CanMaximize

C10_Witness ==
    /\ gw # None
    /\ \E h, k \in Candidates :
          /\ os[h].pattern.present
          /\ os[h].pattern.CanMinimize /\ ~os[h].pattern.CanMaximize
          /\ ~Returned(h)
          /\ Returned(k)

(***************************************************************************)
(* SpecCalls: one call of a helper, from its arguments to its outcome.     *)
(***************************************************************************)
\* The controls handed to get_window_status: every combination of the flags.
FlagControls ==
    {[Good EXCEPT !.iconic = i, !.zoomed = z, !.visible = v] : i, z, v \in BOOLEAN}

CallsOfStatus ==
    {[fn |-> "get_window_status", control |-> c, stage |-> "called"] : c \in FlagControls}

GetWindowStatus ==
    /\ call.fn = "get_window_status" /\ call.stage = "called"
    /\ call' = [fn |-> call.fn, control |-> call.control, stage |-> "returned",
                result |-> get_window_status(call.control)]
    /\ UNCHANGED <<clsVars, deskVars, xpVars, annotVars, inputVars>>

\* uia.GetVirtualScreenSize() at start-up: under, at and over the cap
ScreenSizes ==
    {[width |-> w, height |-> h] :
        w \in {800, 1920, 1921, 2560, 3840, 7680}, h \in {600, 1080, 1081, 1440, 2160}}

CallsOfStateTool ==
    {[fn |-> "state_tool", screen |-> sc, use_vision |-> v, stage |-> "called"] :
        sc \in ScreenSizes, v \in BOOLEAN}

\* __main__.state_tool up to the return of desktop.get_state
StateTool ==
    /\ call.fn = "state_tool" /\ call.stage = "called"
    /\ call' = [fn |-> call.fn, screen |-> call.screen, use_vision |-> call.use_vision,
                stage |-> "returned",
                scale |-> state_tool_scale(call.screen),
                screenshot |-> take_screenshot(mcp_request(call.use_vision, call.screen),
                                               call.screen)]
    /\ UNCHANGED <<clsVars, deskVars, xpVars, annotVars, inputVars>>

(***************************************************************************)
(* Matching a requested name (thefuzz.process). A choice is a name, given  *)
(* by its position in the list, with the score of the requested name       *)
(* against it: under, one under, at and over the cutoff of 70.             *)
(***************************************************************************)
Scores == {69, 70, 95}

ChoiceLists ==
    UNION {{[i \in 1..n |-> [name |-> i, score |-> sc[i]]] : sc \in [1..n -> Scores]} :
              n \in 0..MaxChoices}

\* The position of the first choice with the highest score.
BestIndex(choices) ==
    CHOOSE i \in DOMAIN choices :
        \A j \in DOMAIN choices :
            \/ choices[i].score > choices[j].score
            \/ choices[i].score = choices[j].score /\ i <= j

\* process.extractOne(name, choices, score_cutoff=...): the best choice, if
\* its score reaches the cutoff
extractOne(choices, score_cutoff) ==
    IF choices = <<>> THEN None
    ELSE IF choices[BestIndex(choices)].score < score_cutoff THEN None
    ELSE choices[BestIndex(choices)]

RECURSIVE Ranked(_)
Ranked(choices) ==
    IF choices = <<>> THEN <<>>
    ELSE <<choices[BestIndex(choices)]>> \o Ranked(RemoveAt(choices, BestIndex(choices)))

\* process.extract(name, choices, limit=...): the best `limit` choices, ranked
extract(choices, limit) ==
    SubSeq(Ranked(choices), 1, IF Len(choices) < limit THEN Len(choices) ELSE limit)

\* Desktop.launch_app; started is what Start-Process reported, appid the kind
\* of identifier the start menu holds for the matched name.
launch_app(apps_map, appid, started) ==
    LET matched_app == extractOne(apps_map, 70) IN
    IF matched_app = None
    THEN LET suggestions == extract(apps_map, 5) IN
         IF suggestions # <<>>
         THEN [msg |-> "not found in start menu. Did you mean one of",
               hint |-> [k \in DOMAIN suggestions |-> suggestions[k].name],
               status |-> 1, matched |-> None]
         ELSE [msg |-> "not found in start menu", hint |-> <<>>, status |-> 1,
               matched |-> None]
    ELSE IF appid = "none"
    THEN [msg |-> "not found in start menu", hint |-> <<>>, status |-> 1,
          matched |-> matched_app]
    ELSE IF appid = "invalid"
    THEN [msg |-> "Invalid app identifier", hint |-> <<>>, status |-> 1,
          matched |-> matched_app]
    ELSE [msg |-> "response of Start-Process", hint |-> <<>>, status |-> started,
          matched |-> matched_app]

\* Desktop.switch_app from line 340 on; window_list is the active window and
\* the windows of desktop_state, iconic and valid what IsIconic and IsWindow
\* report for the matched window.
switch_app(window_list, iconic, valid) ==
    LET matched_window == extractOne(window_list, 70) IN
    IF window_list = <<>>
    THEN [msg |-> "No windows found on the desktop", hint |-> <<>>, status |-> 1,
          matched |-> None]
    ELSE IF matched_window = None
    THEN [msg |-> "not found", hint |-> <<>>, status |-> 1, matched |-> None]
    ELSE IF iconic
    THEN [msg |-> "restored from Minimized state", hint |-> <<>>, status |-> 0,
          matched |-> matched_window]
    ELSE IF ~valid
    THEN [msg |-> "Error switching app", hint |-> <<>>, status |-> 1,
          matched |-> matched_window]
    ELSE [msg |-> "Switched to", hint |-> <<>>, status |-> 0, matched |-> matched_window]

LaunchApp ==
    /\ call.fn = "launch_app" /\ call.stage = "called"
    /\ \E appid \in {"invalid", "path", "aumid"}, started \in {0, 1} :
          call' = [fn |-> call.fn, choices |-> call.choices, stage |-> "returned",
                   result |-> launch_app(call.choices, appid, started)]
    /\ UNCHANGED <<clsVars, deskVars, xpVars, annotVars, inputVars>>

SwitchApp ==
    /\ call.fn = "switch_app" /\ call.stage = "called"
    /\ \E iconic \in BOOLEAN, valid \in BOOLEAN :
          call' = [fn |-> call.fn, choices |-> call.choices, stage |-> "returned",
                   result |-> switch_app(call.choices, iconic, valid)]
    /\ UNCHANGED <<clsVars, deskVars, xpVars, annotVars, inputVars>>

\* base64.b64encode(s): s must be bytes-like, a PIL image is a TypeError
b64encode(shot) ==
    IF shot.kind = "bytes" THEN [raised |-> FALSE, of |-> shot]
    ELSE [raised |-> TRUE, of |-> None]

\* fastapi_server.state_tool: the response of POST /tools/state
http_state_tool(use_vision, screen) ==
    LET screenshot == take_screenshot(http_request(use_vision), screen) IN
    IF use_vision /\ screenshot # None
    THEN IF b64encode(screenshot).raised
         THEN [http |-> 500, has_state |-> FALSE, has_screenshot |-> FALSE,
               stored |-> screenshot]
         ELSE [http |-> 200, has_state |-> TRUE, has_screenshot |-> TRUE,
               stored |-> screenshot]
    ELSE [http |-> 200, has_state |-> TRUE, has_screenshot |-> FALSE,
          stored |-> screenshot]

CallsOfHttpState ==
    {[fn |-> "http_state_tool", screen |-> sc, use_vision |-> v, stage |-> "called"] :
        sc \in ScreenSizes, v \in BOOLEAN}

HttpStateTool ==
    /\ call.fn = "http_state_tool" /\ call.stage = "called"
    /\ call' = [fn |-> call.fn, screen |-> call.screen, use_vision |-> call.use_vision,
                stage |-> "returned",
                response |-> http_state_tool(call.use_vision, call.screen)]
    /\ UNCHANGED <<clsVars, deskVars, xpVars, annotVars, inputVars>>

(***************************************************************************)
(* Desktop.bring_window_to_top, one win32 call after the other. env is     *)
(* what the platform reports for the target and the foreground window, and *)
(* the one call that fails, if any; log is the calls that have succeeded,  *)
(* and the detach once it is issued.                                       *)
(***************************************************************************)
BwtFailures ==
    {"none", "ShowWindow", "GetWindowThreadProcessId", "SetForegroundWindow",
     "BringWindowToTop", "SetWindowPos", "AttachThreadInput True",
     "AttachThreadInput False"}

CallsOfBringToTop ==
    {[fn |-> "bring_window_to_top", stage |-> "called", pc |-> "start",
      attached |-> FALSE, log |-> <<>>, outcome |-> "none",
      env |-> [valid |-> v, iconic |-> i, fg_valid |-> g, foreground_thread |-> ft,
               target_thread |-> tt, fails |-> f]] :
        v \in BOOLEAN, i \in BOOLEAN, g \in BOOLEAN, ft \in {0, 7}, tt \in {0, 7, 8},
        f \in BwtFailures}

\* The calls made in program order until the failing one raises.
Issue(calls, fails) ==
    IF IndexOf(calls, fails) = 0 THEN [log |-> calls, raised |-> FALSE]
    ELSE [log |-> SubSeq(calls, 1, IndexOf(calls, fails) - 1), raised |-> TRUE]

\* lines 369-393: validation, restore, and the paths that need no attach
BwtPrepare ==
    /\ call.fn = "bring_window_to_top" /\ call.pc = "start"
    /\ LET env == call.env
           direct == \/ env.foreground_thread = 0 \/ env.target_thread = 0
                     \/ env.foreground_thread = env.target_thread
           calls == (IF env.iconic THEN <<"ShowWindow">> ELSE <<>>)
                    \o <<"GetForegroundWindow">>
                    \o (IF ~env.fg_valid
                        THEN <<"SetForegroundWindow", "BringWindowToTop">>
                        ELSE <<"GetWindowThreadProcessId">>
                             \o (IF direct
                                 THEN <<"SetForegroundWindow", "BringWindowToTop">>
                                 ELSE <<"AllowSetForegroundWindow">>))
           r == Issue(calls, env.fails)
       IN  IF ~env.valid
           THEN call' = [call EXCEPT !.stage = "returned", !.pc = "done",
                                     !.outcome = "ValueError"]
           ELSE IF r.raised \/ ~env.fg_valid \/ direct
           THEN call' = [call EXCEPT !.stage = "returned", !.pc = "done",
                                     !.log = r.log, !.outcome = "returned"]
           ELSE call' = [call EXCEPT !.pc = "attach", !.log = r.log]
    /\ UNCHANGED <<clsVars, deskVars, xpVars, annotVars, inputVars>>

\* lines 395-398: attached is set after the attach has succeeded
BwtAttach ==
    /\ call.fn = "bring_window_to_top" /\ call.pc = "attach"
    /\ IF call.env.fails = "AttachThreadInput True"
       THEN call' = [call EXCEPT !.pc = "finally"]
       ELSE call' = [call EXCEPT !.pc = "SetForegroundWindow", !.attached = TRUE,
                                 !.log = Append(@, "AttachThreadInput True")]
    /\ UNCHANGED <<clsVars, deskVars, xpVars, annotVars, inputVars>>

\* lines 400-411: SetForegroundWindow, BringWindowToTop, SetWindowPos
BwtRaiseWindow ==
    /\ call.fn = "bring_window_to_top"
    /\ call.pc \in {"SetForegroundWindow", "BringWindowToTop", "SetWindowPos"}
    /\ IF call.env.fails = call.pc
       THEN call' = [call EXCEPT !.pc = "finally"]
       ELSE call' = [call EXCEPT
                        !.pc = IF call.pc = "SetForegroundWindow" THEN "BringWindowToTop"
                               ELSE IF call.pc = "BringWindowToTop" THEN "SetWindowPos"
                               ELSE "finally",
                        !.log = Append(@, call.pc)]
    /\ UNCHANGED <<clsVars, deskVars, xpVars, annotVars, inputVars>>

detach_always(attached) == TRUE

\* line 414: if attached
detach_needed(attached) == attached

\* lines 413-418: the detach, and the except that logs whatever was raised
BwtFinally ==
    /\ call.fn = "bring_window_to_top" /\ call.pc = "finally"
    /\ call' = [call EXCEPT
                    !.stage = "returned", !.pc = "done", !.outcome = "returned",
                    !.log = IF detach_needed(call.attached)
                            THEN Append(@, "AttachThreadInput False") ELSE @]
    /\ UNCHANGED <<clsVars, deskVars, xpVars, annotVars, inputVars>>

CallsOfApp ==
    {[fn |-> f, choices |-> ch, stage |-> "called"] :
        f \in {"launch_app", "switch_app"}, ch \in ChoiceLists}

InitCalls ==
    /\ call \in CallsOfStatus \cup CallsOfStateTool \cup CallsOfApp \cup CallsOfHttpState
               \cup CallsOfBringToTop
    /\ ClsIdle /\ DeskIdle /\ XPathIdle /\ AnnotIdle /\ InputIdle

NextCalls ==
    \/ GetWindowStatus
    \/ StateTool
    \/ LaunchApp
    \/ SwitchApp
    \/ HttpStateTool
    \/ BwtPrepare
    \/ BwtAttach
    \/ BwtRaiseWindow
    \/ BwtFinally

SpecCalls == InitCalls /\ [][NextCalls]_vars

StatusReturned == call.fn = "get_window_status" /\ call.stage = "returned"

\* C11: get_window_status gives Minimized to every iconic control, Maximized
\* to every zoomed control that is not iconic, Normal to every visible
\* control that is neither, and Hidden to the rest.
C11_StatusPriority ==
    StatusReturned =>
        LET c == call.control IN
        /\ c.iconic => call.result = "Minimized"
        /\ (~c.iconic /\ c.zoomed) => call.result = "Maximized"
        /\ (~c.iconic /\ ~c.zoomed /\ c.visible) => call.result = "Normal"
        /\ (~c.iconic /\ ~c.zoomed /\ ~c.visible) => call.result = "Hidden"

\* A control that is iconic and zoomed and hidden at once is Minimized.
C11_Witness ==
    /\ StatusReturned
    /\ call.control.iconic /\ call.control.zoomed /\ ~call.control.visible
    /\ call.result = "Minimized"

(***************************************************************************)
(* Claims about the active window (SpecSnapshot).                          *)
(***************************************************************************)
\* The calls that have assembled a DesktopState and not yet returned.
Assembled == {c \in callers : asm[c] # None /\ ~asm[c].raised}

\* The top-level control of the foreground element of input inp.
ForegroundHandle(inp) == get_window_from_element_handle(inp.fg.chain, 1)

\* Foreground resolution runs to its end: no query on the control throws.
ForegroundResolves(inp) ==
    /\ ~inp.fg.throws
    /\ inp.os[ForegroundHandle(inp)].fail \notin {"resolve", "status", "bounds"}

\* C12: when the foreground window is not the desktop background and no
\* query on it throws, the active window is the classifier's list entry with
\* its handle if there is one, and otherwise a synthesized Window carrying
\* the control's handle, name, process id, bounding box and status.
C12_ActiveWindowSynthesized ==
    \A c \in Assembled : \A inp \in inputs :
        (ForegroundResolves(inp) /\ inp.os[ForegroundHandle(inp)].cls # "Progman") =>
            LET h  == ForegroundHandle(inp)
                ctl == inp.os[h]
                aw == asm[c].state.active_window
                ws == asm[c].gwr.windows
            IN  /\ aw # None
                /\ aw.handle = h
                /\ h \in HandlesOf(ws) => \E i \in DOMAIN ws : ws[i] = aw
                /\ h \notin HandlesOf(ws) =>
                      /\ aw.name = ctl.name
                      /\ aw.process_id = ctl.pid
                      /\ aw.bounding_box = BoundingBox(ctl.rect)
                      /\ aw.status = get_window_status(ctl)

\* The foreground window cannot be maximized, the classifier rejected it and
\* accepted the other one, and the active window is synthesized from it.
C12_Witness ==
    \E c \in Assembled : \E inp \in inputs :
        LET h == ForegroundHandle(inp) IN
        /\ ForegroundResolves(inp)
        /\ ~inp.os[h].pattern.CanMaximize
        /\ Len(asm[c].gwr.windows) = 1
        /\ h \notin HandlesOf(asm[c].gwr.windows)
        /\ asm[c].state.active_window # None
        /\ asm[c].state.active_window.handle = h
        /\ asm[c].state.active_window.name = <<"Notepad">>

\* There is no active window to find: the foreground query throws, a query on
\* the foreground control throws, or the control is the desktop background.
NoActiveWindow(inp) ==
    \/ inp.fg.throws
    \/ /\ ~inp.fg.throws
       /\ \/ inp.os[ForegroundHandle(inp)].fail \in {"resolve", "status", "bounds"}
          \/ inp.os[ForegroundHandle(inp)].cls = "Progman"

\* The steps of get_state after active-window resolution do not throw.
RestCompletes(inp) == inp.vdm \in {"ok", "RuntimeError"} /\ ~inp.tree.throws

\* C13: when the foreground control is the desktop background or a step of
\* active-window resolution throws, get_state does not raise on that account:
\* it assembles, stores and returns a DesktopState whose active_window is
\* empty, and hands the tree walker no active handle.
C13_MissingActiveWindowTolerated ==
    \A c \in callers : \A inp \in inputs :
        (NoActiveWindow(inp) /\ RestCompletes(inp)) =>
            /\ returned[c] # Raised
            /\ asm[c] # None =>
                  /\ ~asm[c].raised
                  /\ asm[c].state.active_window = None
                  /\ asm[c].tree_args.active = 0
            /\ pc[c] = "return" => desktop_state.active_window = None
            /\ returned[c] # None => returned[c].active_window = None

\* The status query on the foreground control throws; the call has returned
\* a DesktopState without an active window.
C13_Witness ==
    \E c \in callers : \E inp \in inputs :
        /\ ~inp.fg.throws
        /\ inp.os[ForegroundHandle(inp)].fail = "status"
        /\ pc[c] = "idle"
        /\ returned[c] # None /\ returned[c] # Raised
        /\ returned[c].active_window = None
        /\ desktop_state = returned[c]

AppA == 1
OverlayB == 2
TaskbarC == 3

Taskbars ==
    {[Good EXCEPT !.cls = "Shell_TrayWnd", !.kind = "PaneControl", !.name = <<"Taskbar">>,
                  !.pattern = p, !.visible = v] : p \in Patterns, v \in BOOLEAN}

ScenarioOs(taskbar) == <<Good, [Good EXCEPT !.nchildren = 0], taskbar>>

ScenarioForegrounds ==
    {[throws |-> TRUE, chain |-> <<>>],
     [throws |-> FALSE, chain |-> <<AppA>>],
     [throws |-> FALSE, chain |-> <<TaskbarC>>]}

InitScenario ==
    /\ \E taskbar \in Taskbars, fg \in ScenarioForegrounds :
          \E ord \in IterOrders(get_controls_handles(ScenarioOs(taskbar))) :
              DeskInit({MakeInput(ScenarioOs(taskbar), ord, fg, BaseRest)}, {1})
    /\ ClsIdle /\ XPathIdle /\ AnnotIdle /\ FnIdle /\ InputIdle

SpecScenario == InitScenario /\ [][NextState]_vars

\* C15 as stated: on {A, B, C} the classifier returns the windows A and C, and
\* the tree walker is handed other_handles = {B}.
C15_ScenarioAsStated ==
    \A c \in callers :
        asm[c] # None =>
            /\ HandlesOf(asm[c].gwr.windows) = {AppA, TaskbarC}
            /\ asm[c].tree_args.others = {OverlayB}

\* C15 amended: on {A, B, C} the classifier returns A, never B, and C exactly
\* when C's window pattern reports both CanMinimize and CanMaximize; the tree
\* walker is handed B, and C too when the classifier rejected it.
C15_ScenarioAmended ==
    \A c \in callers : \A inp \in inputs :
        asm[c] # None =>
            LET accepted == inp.os[TaskbarC].pattern.present
                            /\ inp.os[TaskbarC].pattern.CanMinimize
                            /\ inp.os[TaskbarC].pattern.CanMaximize
            IN  /\ asm[c].candidates = {AppA, OverlayB, TaskbarC}
                /\ HandlesOf(asm[c].gwr.windows) =
                      IF accepted THEN {AppA, TaskbarC} ELSE {AppA}
                /\ asm[c].tree_args.others =
                      IF accepted THEN {OverlayB} ELSE {OverlayB, TaskbarC}

\* The taskbar has no window pattern and is not visible: it is enumerated,
\* rejected by the classifier and handed to the tree walker with B.
C15_Witness ==
    \E c \in callers : \E inp \in inputs :
        /\ asm[c] # None
        /\ ~inp.os[TaskbarC].pattern.present /\ ~inp.os[TaskbarC].visible
        /\ HandlesOf(asm[c].gwr.windows) = {AppA}
        /\ asm[c].tree_args.others = {OverlayB, TaskbarC}

(***************************************************************************)
(* Claims about the virtual desktops (SpecSnapshot).                       *)
(***************************************************************************)
\* C16: when get_current_desktop or get_all_desktops fails, get_state does not
\* raise: it completes with active_desktop the "Default Desktop" descriptor
\* and all_desktops the list of that one descriptor.
C16_VdmFailureFallsBack ==
    \A c \in callers : \A inp \in inputs :
        (inp.vdm # "ok" /\ ~inp.tree.throws) =>
            /\ returned[c] # Raised
            /\ asm[c] # None =>
                  /\ ~asm[c].raised
                  /\ asm[c].state.active_desktop = DefaultDesktop
                  /\ asm[c].state.all_desktops = <<DefaultDesktop>>

(***************************************************************************)
(* Claims about the scale of the Snapshot tool (SpecCalls).                *)
(***************************************************************************)
FracEq(a, b)  == a.num * b.den = b.num * a.den
FracLeq(a, b) == a.num * b.den <= b.num * a.den
FracMin(a, b) == IF FracLeq(a, b) THEN a ELSE b

StateToolReturned == call.fn = "state_tool" /\ call.stage = "returned"

\* C17: the scale of the Snapshot tool is min(1920/w, 1080/h) for a screen
\* over the cap and 1 for a screen within it, never more than 1; get_state
\* resizes the screenshot exactly when the scale is not 1, by that one factor
\* in both dimensions.
C17_ScaleRule ==
    StateToolReturned =>
        LET w == call.screen.width
            h == call.screen.height
            s == call.scale
            shot == call.screenshot
        IN  /\ (w > 1920 \/ h > 1080) =>
                  FracEq(s, FracMin([num |-> 1920, den |-> w], [num |-> 1080, den |-> h]))
            /\ (w <= 1920 /\ h <= 1080) => s = [num |-> 1, den |-> 1]
            /\ FracLeq(s, [num |-> 1, den |-> 1])
            /\ call.use_vision =>
                  /\ shot.resized <=> ~FracEq(s, [num |-> 1, den |-> 1])
                  /\ shot.resized =>
                        /\ shot.width  = (PaddedSize(w) * s.num) \div s.den
                        /\ shot.height = (PaddedSize(h) * s.num) \div s.den
                  /\ ~shot.resized =>
                        /\ shot.width = PaddedSize(w)
                        /\ shot.height = PaddedSize(h)
            /\ ~call.use_vision => shot = None

\* A screen of 2560x2160: the height decides, the scale is 1/2 and the
\* screenshot is resized.
C17_Witness ==
    /\ StateToolReturned
    /\ call.screen = [width |-> 2560, height |-> 2160]
    /\ FracEq(call.scale, [num |-> 1, den |-> 2])
    /\ call.use_vision /\ call.screenshot.resized
    /\ call.screenshot.height = PaddedSize(2160) \div 2

(***************************************************************************)
(* Claims about resize_app (SpecActions).                                  *)
(***************************************************************************)
\* The last action was a resize_app call made after a completed snapshot.
ResizeAfterSnapshot ==
    lastAction # None /\ lastAction.op = "resize" /\ lastAction.done # None

\* C18: resize_app, when the active window of the last snapshot is missing,
\* Minimized or Maximized, returns a refusal that says so with status 1,
\* raises nothing and does not call MoveWindow; MoveWindow is called only for
\* a recorded status that is neither Minimized nor Maximized.
C18_ResizeRefusal ==
    ResizeAfterSnapshot =>
        LET aw == lastAction.done.active_window
            refused == IF aw = None THEN TRUE ELSE aw.status \in {"Minimized", "Maximized"}
        IN  /\ refused =>
                  /\ lastAction.outcome = "returned"
                  /\ lastAction.status # 0
                  /\ ~lastAction.moved
                  /\ lastAction.msg =
                        IF aw = None THEN <<"No active window found">>
                        ELSE IF aw.status = "Minimized" THEN aw.name \o <<" is minimized">>
                        ELSE aw.name \o <<" is maximized">>
            /\ lastAction.moved => ~refused

\* The active window of the last snapshot is maximized; resize_app refused.
C18_Witness ==
    /\ ResizeAfterSnapshot
    /\ lastAction.done.active_window # None
    /\ lastAction.done.active_window.status = "Maximized"
    /\ lastAction.outcome = "returned" /\ lastAction.status = 1
    /\ ~lastAction.moved

(***************************************************************************)
(* The input-injection actions of Desktop (lines 432-533). An action is    *)
(* the sequence of its calls into pyautogui and uia; between two calls the *)
(* thread can lose the processor.                                          *)
(***************************************************************************)
RECURSIVE Repeat(_, _)
Repeat(steps, n) == IF n = 0 THEN <<>> ELSE steps \o Repeat(steps, n - 1)

\* Desktop.type
type_steps(caret_position, clear, press_enter) ==
    <<"leftClick">>
    \o (IF caret_position = "start" THEN <<"press home">>
        ELSE IF caret_position = "end" THEN <<"press end">> ELSE <<>>)
    \o (IF clear THEN <<"hotkey ctrl+a", "press backspace">> ELSE <<>>)
    \o <<"typewrite">>
    \o (IF press_enter THEN <<"press enter">> ELSE <<>>)

\* Desktop.scroll
scroll_steps(has_loc, type, direction) ==
    (IF has_loc THEN <<"moveTo">> ELSE <<>>)
    \o (IF type = "vertical"
        THEN (IF direction = "up" THEN <<"WheelUp">>
              ELSE IF direction = "down" THEN <<"WheelDown">> ELSE <<>>)
        ELSE IF type = "horizontal"
        THEN (IF direction = "left" THEN <<"keyDown Shift", "WheelUp", "keyUp Shift">>
              ELSE IF direction = "right" THEN <<"keyDown Shift", "WheelDown", "keyUp Shift">>
              ELSE <<>>)
        ELSE <<>>)

\* The calls of one action, in program order.
InputSteps(req) ==
    CASE req.action = "click"        -> <<"click">>
      [] req.action = "type"         -> type_steps(req.caret_position, req.clear, req.press_enter)
      [] req.action = "scroll"       -> scroll_steps(req.has_loc, req.type, req.direction)
      [] req.action = "drag"         -> <<"dragTo">>
      [] req.action = "move"         -> <<"moveTo">>
      [] req.action = "shortcut"     -> IF req.keys > 1 THEN <<"hotkey">> ELSE <<"press">>
      [] req.action = "multi_select" ->
            (IF req.press_ctrl THEN <<"keyDown ctrl">> ELSE <<>>)
            \o Repeat(<<"click">>, req.locs) \o <<"keyUp ctrl">>
      [] req.action = "multi_edit"   ->
            Repeat(type_steps("idle", TRUE, FALSE), req.locs)

InputRequests ==
    {[action |-> "click"], [action |-> "drag"], [action |-> "move"]}
    \cup {[action |-> "type", caret_position |-> "idle", clear |-> cl, press_enter |-> pe] :
             cl \in BOOLEAN, pe \in BOOLEAN}
    \cup {[action |-> "type", caret_position |-> "start", clear |-> FALSE,
            press_enter |-> FALSE]}
    \cup {[action |-> "scroll", has_loc |-> hl, type |-> "vertical", direction |-> "down"] :
             hl \in BOOLEAN}
    \cup {[action |-> "scroll", has_loc |-> hl, type |-> "horizontal", direction |-> "left"] :
             hl \in BOOLEAN}
    \cup {[action |-> "shortcut", keys |-> k] : k \in 1..2}
    \cup {[action |-> "multi_select", press_ctrl |-> pc0, locs |-> n] :
             pc0 \in BOOLEAN, n \in 1..MaxLocs}
    \cup {[action |-> "multi_edit", locs |-> n] : n \in 1..MaxLocs}

\* The action of request r has made a call and has calls left to make.
MidAction(r) ==
    /\ ~inj[r].raised
    /\ inj[r].pos > 0 /\ inj[r].pos < Len(InputSteps(inj[r].req))

\* fastapi_server.py: the handlers are coroutines without an await, so the
\* event loop runs one handler from its start to its end.
event_loop_may_run(r) == \A u \in DOMAIN inj : u # r => ~MidAction(u)

\* The dispatcher that serves several requests at once, each on a thread of
\* its own; Desktop takes no lock.
threads_may_run(r) == TRUE

InjectStep(r) ==
    /\ r \in DOMAIN inj
    /\ ~inj[r].raised
    /\ inj[r].pos < Len(InputSteps(inj[r].req))
    /\ IF dispatcher = "event_loop" THEN event_loop_may_run(r) ELSE threads_may_run(r)
    /\ inj' = [inj EXCEPT ![r].pos = @ + 1,
                          ![r].last = InputSteps(inj[r].req)[inj[r].pos + 1]]
    /\ UNCHANGED <<dispatcher, clsVars, deskVars, xpVars, annotVars, fnVars>>

\* The next call of the action raises: no method of lines 432-533 has a try,
\* so the action ends there and the calls after it are not made.
InjectRaise(r) ==
    /\ r \in DOMAIN inj
    /\ ~inj[r].raised
    /\ inj[r].pos < Len(InputSteps(inj[r].req))
    /\ IF dispatcher = "event_loop" THEN event_loop_may_run(r) ELSE threads_may_run(r)
    /\ inj' = [inj EXCEPT ![r].raised = TRUE]
    /\ UNCHANGED <<dispatcher, clsVars, deskVars, xpVars, annotVars, fnVars>>

NextInput == \E r \in 1..NumCallers : InjectStep(r) \/ InjectRaise(r)

InitInput ==
    /\ dispatcher \in {"event_loop", "threads"}
    /\ inj \in [1..NumCallers -> {[req |-> q, pos |-> 0, last |-> "none", raised |-> FALSE] :
                                     q \in InputRequests}]
    /\ ClsIdle /\ DeskIdle /\ XPathIdle /\ AnnotIdle /\ FnIdle

SpecInput == InitInput /\ [][NextInput]_vars

\* The requests whose action is between its first and its last physical step.
InProgress == {r \in DOMAIN inj : MidAction(r)}

\* C19: while the dispatcher serves several requests at once, at most one
\* input-injection action is between its first and its last physical step.
C19_InputActionsDoNotInterleave ==
    dispatcher = "threads" => Cardinality(InProgress) <= 1

(***************************************************************************)
(* Claims about the writes of the draw tasks (SpecAnnot).                  *)
(***************************************************************************)
\* The tasks that have drawn their box and have their label left to draw.
Drawing == {i \in DOMAIN taskpc : taskpc[i] = "box"}

\* C20: during get_annotated_screenshot at most one draw_annotation task is
\* in the middle of its writes to the padded screenshot.
C20_CanvasWritesSerialized == Cardinality(Drawing) <= 1

(***************************************************************************)
(* Claims about the padding of the annotated canvas (SpecAnnot).           *)
(***************************************************************************)
\* The bounding box lies within the captured screen area.
WithinScreen(box, vs) ==
    /\ vs.left <= box.left /\ box.left <= box.right /\ box.right <= vs.left + vs.width
    /\ vs.top <= box.top /\ box.top <= box.bottom /\ box.bottom <= vs.top + vs.height

\* The box, in image coordinates, lies inside the padded canvas of lines 796-798.
InsideCanvas(b, vs) ==
    /\ 0 <= b.left /\ b.right <= PaddedSize(vs.width)
    /\ 0 <= b.top /\ b.bottom <= PaddedSize(vs.height)

\* C21: for every element whose bounding box lies within the captured screen
\* area, the translated bounding box and the label box that its draw task has
\* drawn lie entirely inside the padded canvas.
C21_LabelsInsideCanvas ==
    \A i \in DOMAIN tasks :
        (taskpc[i] = "done" /\ WithinScreen(tasks[i].node.bounding_box, vscreen)) =>
            /\ InsideCanvas(adjusted_box(tasks[i].node.bounding_box, vscreen), vscreen)
            /\ InsideCanvas(label_box(tasks[i].label, tasks[i].node.bounding_box, vscreen),
                            vscreen)

(***************************************************************************)
(* Claims about name matching (SpecCalls).                                 *)
(***************************************************************************)
AppReturned == call.fn \in {"launch_app", "switch_app"} /\ call.stage = "returned"

\* No choice reaches the cutoff of 70.
NoneReaches(choices) == \A i \in DOMAIN choices : choices[i].score < 70

\* C22: launch and switch, when no candidate name reaches the cutoff and there
\* is a candidate, return a non-zero status with a message that lists ranked
\* suggestions, at most five; when a candidate reaches the cutoff, the best
\* match is the one used.
C22_TwoTierMatching ==
    AppReturned =>
        LET ch == call.choices
            r  == call.result
        IN  /\ (ch # <<>> /\ NoneReaches(ch)) =>
                  /\ r.status # 0
                  /\ r.hint # <<>> /\ Len(r.hint) <= 5
                  /\ \A k \in DOMAIN r.hint :
                        \A j \in DOMAIN ch :
                            ch[j].score > ch[r.hint[k]].score =>
                                \E m \in 1..(k - 1) : r.hint[m] = j
            /\ (ch # <<>> /\ ~NoneReaches(ch)) =>
                  /\ r.matched # None
                  /\ \A j \in DOMAIN ch : ch[j].score <= r.matched.score

(***************************************************************************)
(* Claims about the Window records of a DesktopState (SpecSnapshot).       *)
(***************************************************************************)
\* The Window record has an empty bounding box only if it is Minimized.
BoxRule(w) == isempty(w.bounding_box) => w.status = "Minimized"

\* C23: every Window of the DesktopState that get_state stores, in the list
\* of other windows or as the active window, has an empty bounding box only
\* if its status is Minimized.
C23_EmptyBoxOnlyIfMinimized ==
    desktop_state # None =>
        /\ \A i \in DOMAIN desktop_state.windows : BoxRule(desktop_state.windows[i])
        /\ desktop_state.active_window # None => BoxRule(desktop_state.active_window)

(***************************************************************************)
(* Claims about resize_app in every state of the service (SpecActions).    *)
(***************************************************************************)
\* C24: resize_app never raises, also when no get_state call has completed:
\* it returns a message with a status, and reports the absence of an active
\* window as a refusal.
C24_ResizeNeverRaises ==
    (lastAction # None /\ lastAction.op = "resize") =>
        /\ lastAction.outcome = "returned"
        /\ (lastAction.done = None \/ lastAction.window = None) =>
              /\ lastAction.msg = <<"No active window found">>
              /\ lastAction.status # 0

(***************************************************************************)
(* Claims about the handle set returned by get_windows (SpecSnapshot).     *)
(***************************************************************************)
\* C25: the handle set that get_windows returns is the set of the handles of
\* the Window list it returns, also when it caught an exception; and every
\* enumerated candidate is the handle of a Window of the snapshot, active or
\* other, or is among the other handles handed to the tree walker.
C25_HandleSetMatchesList ==
    \A c \in callers :
        asm[c] # None =>
            /\ asm[c].gwr.window_handles = HandlesOf(asm[c].gwr.windows)
            /\ ~asm[c].raised =>
                  \A h \in asm[c].candidates :
                      \/ h \in HandlesOf(asm[c].state.windows)
                      \/ /\ asm[c].state.active_window # None
                         /\ asm[c].state.active_window.handle = h
                      \/ h \in asm[c].tree_args.others

(***************************************************************************)
(* Claims about the size of the Snapshot tool's screenshot (SpecCalls).    *)
(***************************************************************************)
\* C26: for every screen size, the image that the Snapshot tool has get_state
\* store after scaling is at most 1920 wide and at most 1080 high.
C26_ScreenshotWithinCap ==
    (StateToolReturned /\ call.use_vision) =>
        /\ call.screenshot.width <= MAX_IMAGE_WIDTH
        /\ call.screenshot.height <= MAX_IMAGE_HEIGHT

(***************************************************************************)
(* Claims about the HTTP endpoint of the snapshot (SpecCalls).             *)
(***************************************************************************)
\* C27: POST /tools/state with use_vision=true responds successfully, with
\* the textual state and the base64 encoding of the screenshot that get_state
\* stored.
C27_HttpStateReturnsScreenshot ==
    (call.fn = "http_state_tool" /\ call.stage = "returned" /\ call.use_vision) =>
        /\ call.response.http = 200
        /\ call.response.has_state
        /\ call.response.has_screenshot

(***************************************************************************)
(* Claims about bring_window_to_top (SpecCalls).                           *)
(***************************************************************************)
\* The positions of a call in the log.
At(log, name) == {i \in DOMAIN log : log[i] = name}

\* C28: in bring_window_to_top a detach is issued only after an attach that
\* succeeded, and once the function has returned every attach that succeeded
\* has its detach after it, whichever call raised in between.
C28_AttachDetachPaired ==
    call.fn = "bring_window_to_top" =>
        LET attaches == At(call.log, "AttachThreadInput True")
            detaches == At(call.log, "AttachThreadInput False")
        IN  /\ Cardinality(attaches) <= 1 /\ Cardinality(detaches) <= 1
            /\ \A j \in detaches : \E i \in attaches : i < j
            /\ call.stage = "returned" => \A i \in attaches : \E j \in detaches : i < j
            /\ (call.stage = "returned" /\ ~call.attached) => detaches = {}

\* SetForegroundWindow raised after the attach: the detach was issued, the
\* other two calls were not made.
C28_Witness ==
    /\ call.fn = "bring_window_to_top" /\ call.stage = "returned"
    /\ call.env.fails = "SetForegroundWindow"
    /\ Len(call.log) >= 2
    /\ call.log[Len(call.log) - 1] = "AttachThreadInput True"
    /\ call.log[Len(call.log)] = "AttachThreadInput False"

(***************************************************************************)
(* Claims about the return of get_annotated_screenshot (SpecAnnot).        *)
(***************************************************************************)
\* C29: when get_annotated_screenshot has returned the image, one draw task
\* per interactive node was submitted and each of them has finished: both
\* its box and its label are on the canvas and no task is queued or drawing.
C29_ReturnsAfterAllTasks ==
    annotDone =>
        /\ Len(tasks) = Len(nodes)
        /\ \A i \in DOMAIN tasks :
              /\ taskpc[i] = "done"
              /\ \E d \in canvas :
                    /\ d.what = "label"
                    /\ d.box = label_box(tasks[i].label, tasks[i].node.bounding_box, vscreen)
              /\ \E d \in canvas :
                    /\ d.what = "rectangle"
                    /\ d.box = adjusted_box(tasks[i].node.bounding_box, vscreen)

\* The annotator has returned the image of three nodes.
C29_Witness ==
    /\ annotDone
    /\ Len(nodes) = MaxNodes
    /\ \A i \in DOMAIN taskpc : taskpc[i] = "done"
    /\ Cardinality({d \in canvas : d.what = "label"}) >= 2

(***************************************************************************)
(* Claims about the modifier keys of the input actions (SpecInput).        *)
(***************************************************************************)
\* The action of request r has ended, by its last call or by an exception.
Terminated(r) == inj[r].raised \/ inj[r].pos = Len(InputSteps(inj[r].req))

\* The calls request r has made include the key press `down` and no later
\* release `up`.
Held(r, down, up) ==
    \E i \in 1..inj[r].pos :
        /\ InputSteps(inj[r].req)[i] = down
        /\ \A j \in (i + 1)..inj[r].pos : InputSteps(inj[r].req)[j] # up

\* C30: when a horizontal scroll has ended, by its last call or by an
\* exception of the wheel call, the Shift key it pressed is released; when
\* multi_select has ended, the Ctrl key it pressed is released.
C30_ModifiersReleased ==
    \A r \in DOMAIN inj :
        Terminated(r) =>
            /\ inj[r].req.action = "scroll" => ~Held(r, "keyDown Shift", "keyUp Shift")
            /\ inj[r].req.action = "multi_select" => ~Held(r, "keyDown ctrl", "keyUp ctrl")

====
